---- MODULE Spec2Model ----
(***************************************************************************)
(* A model of the poodle-lex generator: the Grammar-to-IR builder          *)
(* (Generator/RulesFile/NonDeterministicIR.py), the automata pipeline it   *)
(* feeds, the C emitter (Plugins/C-Ascii/C-Ascii.py) and the plug-in       *)
(* loader (Generator/LanguagePlugins.py).                                  *)
(*                                                                         *)
(* Strings the code changes the case of (identifiers, action keywords,     *)
(* pattern text) are sequences of one-character strings.  An optional      *)
(* value is a sequence: <<>> is None and <<x>> is the value x.             *)
(***************************************************************************)
EXTENDS Integers, Sequences, FiniteSets, TLC

VARIABLES
    ast0,                 \* the rules-file AST as the front end handed it over
    ast,                  \* the rules-file AST: a well-nested sequence of declarations
    pc,                   \* the Traverser's position: the next declaration of ast
    status,               \* "building" | "built" | "failed" | later pipeline stages
    error,                \* the exception raised out of the build, if any
    current_ast_section,  \* Builder.current_ast_section
    current_ir_section,   \* Builder.current_ir_section (a reference into heap)
    heap,                 \* the NonDeterministicIR.Section objects, in allocation order
    sections,             \* Builder.sections: qualified name -> reference
    rule_ids,             \* Builder.rule_ids
    ir,                   \* the NonDeterministicIR object, once constructed
    dfa,                  \* the DFA of the root section, once determinized
    min_dfa,              \* the minimized DFA, once the analyzer is finalized
    reminimized,          \* the minimized DFA minimized once more, when that is done
    emitted,              \* the C code of the states written so far, in order
    emit_error,           \* the exception raised out of generate_state_machine, if any
    plugin_file,          \* the JSON document of the plug-in file given to load
    load_pc,              \* load: "open" | "plugins" | "returned" | "raised"
    remaining,            \* load: the plug-in identifiers the loop has yet to visit
    language_plugins,     \* load: language_plugins
    default_language,     \* load: default_language
    load_error,           \* the exception raised out of load, if any
    module,               \* Plugin.module
    dependency_modules,   \* Plugin.dependency_modules: the names of the modules loaded
    verified,             \* whether the last load that set the module verified its interface
    emitter_made,         \* the emitter the last call returned, if it was create and returned
    plugin_error,         \* the exception the last call on the Plugin raised, if any
    calls,                \* the number of calls made on the Plugin
    plugin_options,       \* the PluginOptions given to the emitter's constructor
    c_emitter,            \* the CAsciiEmitter constructed, if any
    construct_error       \* the exception raised out of CAsciiEmitter.__init__, if any

vars == <<ast0, ast, pc, status, error, current_ast_section, current_ir_section,
          heap, sections, rule_ids, ir, dfa, min_dfa, reminimized, emitted,
          emit_error, plugin_file, load_pc, remaining, language_plugins,
          default_language, load_error, module, dependency_modules, verified,
          emitter_made, plugin_error, calls, plugin_options, c_emitter,
          construct_error>>

\* What the generator owns, from the AST to the emitted scanner
inside == <<ast0, ast, pc, status, error, current_ast_section, current_ir_section,
            heap, sections, rule_ids, ir, dfa, min_dfa, reminimized, emitted,
            emit_error>>

\* What load owns, what a Plugin object owns, what an emitter's constructor owns
loader == <<plugin_file, load_pc, remaining, language_plugins, default_language,
            load_error>>
object == <<module, dependency_modules, verified, emitter_made, plugin_error, calls>>
construction == <<plugin_options, c_emitter, construct_error>>

\* What is outside the generator
outside == <<loader, object, construction>>

\* What the stages after the builder own, and the plug-in loader
later == <<dfa, min_dfa, reminimized, emitted, emit_error, outside>>

(***************************************************************************)
(* Bounds of the model.                                                    *)
(***************************************************************************)
MaxTokens == 5
MaxCalls == 5

(***************************************************************************)
(* Optional values and text.                                               *)
(***************************************************************************)
None == <<>>
Some(x) == <<x>>
Val(o) == o[1]

UpperLetters == <<"A","B","C","D","E","F","G","H","I","J","K","L","M",
                  "N","O","P","Q","R","S","T","U","V","W","X","Y","Z">>
LowerLetters == <<"a","b","c","d","e","f","g","h","i","j","k","l","m",
                  "n","o","p","q","r","s","t","u","v","w","x","y","z">>

LowerChar(c) ==
    IF \E i \in DOMAIN UpperLetters : UpperLetters[i] = c
    THEN LowerLetters[CHOOSE i \in DOMAIN UpperLetters : UpperLetters[i] = c]
    ELSE c

UpperChar(c) ==
    IF \E i \in DOMAIN LowerLetters : LowerLetters[i] = c
    THEN UpperLetters[CHOOSE i \in DOMAIN LowerLetters : LowerLetters[i] = c]
    ELSE c

\* str.lower() and str.upper()
Lower(s) == [i \in DOMAIN s |-> LowerChar(s[i])]
Upper(s) == [i \in DOMAIN s |-> UpperChar(s[i])]

SeqsUpTo(S, n) == UNION {[1..k -> S] : k \in 0..n}

Range(f) == {f[i] : i \in DOMAIN f}

(***************************************************************************)
(* Regex.Parser: pattern text to AST.  The syntax covered is               *)
(*   alt    ::= concat ('|' concat)*                                       *)
(*   concat ::= repeat+                                                    *)
(*   repeat ::= atom ('*' | '+' | '?')*                                    *)
(*   atom   ::= letter | '(' alt ')' | '[' (letter ('-' letter)?)+ ']'     *)
(*            | '{' letter+ '}'                                            *)
(* An AST node is Literal(char), CharClass(ranges), Concat(kids),          *)
(* Alternation(kids), Repeat(kid, min, max) or VariableRef(name).          *)
(***************************************************************************)
IsLetter(c) ==
    \/ \E i \in DOMAIN UpperLetters : UpperLetters[i] = c
    \/ \E i \in DOMAIN LowerLetters : LowerLetters[i] = c

\* ord() of a letter
Ord(c) ==
    IF \E i \in DOMAIN LowerLetters : LowerLetters[i] = c
    THEN 96 + (CHOOSE i \in DOMAIN LowerLetters : LowerLetters[i] = c)
    ELSE 64 + (CHOOSE i \in DOMAIN UpperLetters : UpperLetters[i] = c)

IsLetterCode(n) == n \in 65..90 \/ n \in 97..122

\* The other case of a letter's codepoint
SwapCase(n) == IF n \in 65..90 THEN n + 32 ELSE IF n \in 97..122 THEN n - 32 ELSE n

Covered(ranges) == UNION {r[1]..r[2] : r \in ranges}

\* Ranges sorted, merged and deduplicated: the maximal runs of the covered codepoints
NormalizeRanges(ranges) ==
    LET S == Covered(ranges)
    IN  {<<lo, hi>> \in S \X S :
            /\ lo <= hi
            /\ \A c \in lo..hi : c \in S
            /\ (lo - 1) \notin S
            /\ (hi + 1) \notin S}

\* Case-insensitivity is applied at parse time: every codepoint with both its cases
ExpandCase(ranges, ci) ==
    IF ci
    THEN NormalizeRanges({<<c, c>> : c \in Covered(ranges)}
                         \cup {<<SwapCase(c), SwapCase(c)>> : c \in Covered(ranges)})
    ELSE NormalizeRanges(ranges)

Literal(c) == [kind |-> "Literal", ch |-> c]
CharClass(ranges) == [kind |-> "CharClass", ranges |-> ranges]
Concat(kids) == [kind |-> "Concat", kids |-> kids]
Alternation(kids) == [kind |-> "Alternation", kids |-> kids]
Repeat(kid, min, max) == [kind |-> "Repeat", kid |-> kid, min |-> min, max |-> max]
VariableRef(name) == [kind |-> "VariableRef", name |-> name]

ParseFail(p) == [ok |-> FALSE, ast |-> None, pos |-> p]
ParseOk(node, p) == [ok |-> TRUE, ast |-> node, pos |-> p]

LiteralNode(c, ci) ==
    IF ci /\ SwapCase(Ord(c)) # Ord(c)
    THEN CharClass(ExpandCase({<<Ord(c), Ord(c)>>}, TRUE))
    ELSE Literal(Ord(c))

RECURSIVE ParseClass(_, _, _, _)
ParseClass(t, p, ci, acc) ==
    IF p > Len(t) THEN ParseFail(p)
    ELSE IF t[p] = "]"
    THEN IF acc = {} THEN ParseFail(p) ELSE ParseOk(CharClass(ExpandCase(acc, ci)), p + 1)
    ELSE IF ~IsLetter(t[p]) THEN ParseFail(p)
    ELSE IF p + 2 <= Len(t) /\ t[p + 1] = "-"
    THEN IF IsLetter(t[p + 2]) /\ Ord(t[p]) <= Ord(t[p + 2])
         THEN ParseClass(t, p + 3, ci, acc \cup {<<Ord(t[p]), Ord(t[p + 2])>>})
         ELSE ParseFail(p)
    ELSE ParseClass(t, p + 1, ci, acc \cup {<<Ord(t[p]), Ord(t[p])>>})

RECURSIVE ParseName(_, _, _)
ParseName(t, p, acc) ==
    IF p > Len(t) THEN ParseFail(p)
    ELSE IF t[p] = "}"
    THEN IF acc = <<>> THEN ParseFail(p) ELSE ParseOk(VariableRef(acc), p + 1)
    ELSE IF IsLetter(t[p]) THEN ParseName(t, p + 1, Append(acc, t[p]))
    ELSE ParseFail(p)

RECURSIVE ParseOps(_, _, _)
ParseOps(t, p, node) ==
    IF p > Len(t) THEN ParseOk(node, p)
    ELSE IF t[p] = "*" THEN ParseOps(t, p + 1, Repeat(node, 0, None))
    ELSE IF t[p] = "+" THEN ParseOps(t, p + 1, Repeat(node, 1, None))
    ELSE IF t[p] = "?" THEN ParseOps(t, p + 1, Repeat(node, 0, Some(1)))
    ELSE ParseOk(node, p)

RECURSIVE ParseAlt(_, _, _)
RECURSIVE AltMore(_, _, _, _)
RECURSIVE ParseConcat(_, _, _, _)
RECURSIVE ConcatMore(_, _, _, _)
RECURSIVE ParseRepeat(_, _, _)
RECURSIVE ParseAtom(_, _, _)

\* A group: the alternation r, then the closing parenthesis
Group(t, r) ==
    IF r.ok /\ r.pos <= Len(t) /\ t[r.pos] = ")"
    THEN ParseOk(r.ast, r.pos + 1)
    ELSE ParseFail(r.pos)

ParseAtom(t, p, ci) ==
    IF p > Len(t) THEN ParseFail(p)
    ELSE IF IsLetter(t[p]) THEN ParseOk(LiteralNode(t[p], ci), p + 1)
    ELSE IF t[p] = "(" THEN Group(t, ParseAlt(t, p + 1, ci))
    ELSE IF t[p] = "[" THEN ParseClass(t, p + 1, ci, {})
    ELSE IF t[p] = "{" THEN ParseName(t, p + 1, <<>>)
    ELSE ParseFail(p)

\* The repetition operators that follow the atom a
Operators(t, a) == IF a.ok THEN ParseOps(t, a.pos, a.ast) ELSE a

ParseRepeat(t, p, ci) == Operators(t, ParseAtom(t, p, ci))

\* A concatenation: one or more repeats, up to a '|', a ')' or the end
ParseConcat(t, p, ci, kids) ==
    IF p > Len(t) \/ t[p] = "|" \/ t[p] = ")"
    THEN IF kids = <<>> THEN ParseFail(p)
         ELSE ParseOk(IF Len(kids) = 1 THEN kids[1] ELSE Concat(kids), p)
    ELSE ConcatMore(t, ci, kids, ParseRepeat(t, p, ci))

ConcatMore(t, ci, kids, r) ==
    IF r.ok THEN ParseConcat(t, r.pos, ci, Append(kids, r.ast)) ELSE r

\* An alternation: concatenations separated by '|'; r is the one just parsed
AltMore(t, ci, kids, r) ==
    IF ~r.ok THEN r
    ELSE IF r.pos <= Len(t) /\ t[r.pos] = "|"
    THEN AltMore(t, ci, Append(kids, r.ast), ParseConcat(t, r.pos + 1, ci, <<>>))
    ELSE ParseOk(IF kids = <<>> THEN r.ast ELSE Alternation(Append(kids, r.ast)), r.pos)

ParseAlt(t, p, ci) == AltMore(t, ci, <<>>, ParseConcat(t, p, ci, <<>>))

\* The whole text must have been read
Whole(text, r) ==
    IF r.ok /\ r.pos = Len(text) + 1 THEN ParseOk(r.ast, r.pos) ELSE ParseFail(r.pos)

\* Regex.Parser(text, is_case_insensitive).parse(): the AST, or a syntax error
Parse(text, ci) == Whole(text, ParseAlt(text, 1, ci))

(***************************************************************************)
(* Automata.NonDeterministicFiniteBuilder: Thompson construction.  A       *)
(* fragment uses the states base+1 .. base+n and has one entry and one     *)
(* exit; an edge is an epsilon move or a set of normalized character       *)
(* ranges.  lookup maps the visible variable names to their patterns.      *)
(***************************************************************************)
EpsEdge(a, b) == [from |-> a, to |-> b, eps |-> TRUE, ranges |-> {}]
CharEdge(a, b, ranges) ==
    [from |-> a, to |-> b, eps |-> FALSE, ranges |-> NormalizeRanges(ranges)]

FragFail(base, why) ==
    [ok |-> FALSE, why |-> why, base |-> base, n |-> 0, start |-> 0, exit |-> 0,
     edges |-> {}]
Frag(base, n, start, exit, edges) ==
    [ok |-> TRUE, why |-> "", base |-> base, n |-> n, start |-> start, exit |-> exit,
     edges |-> edges]

RECURSIVE Fragment(_, _, _, _)
RECURSIVE FragmentSeq(_, _, _, _, _, _)
RECURSIVE SeqMore(_, _, _, _, _, _)
RECURSIVE Expand(_, _, _, _)

\* The fragments of kids[k..], each after the other; acc holds those built so far
FragmentSeq(kids, k, base, lookup, visiting, acc) ==
    IF k > Len(kids) THEN [ok |-> TRUE, why |-> "", frags |-> acc, next |-> base]
    ELSE SeqMore(kids, k, lookup, visiting, acc, Fragment(kids[k], base, lookup, visiting))

SeqMore(kids, k, lookup, visiting, acc, f) ==
    IF f.ok
    THEN FragmentSeq(kids, k + 1, f.base + f.n, lookup, visiting, Append(acc, f))
    ELSE [ok |-> FALSE, why |-> f.why, frags |-> acc, next |-> f.base]

\* The fragments r.frags chained by epsilon moves
ConcatFragment(base, r) ==
    LET fs == r.frags
    IN  IF ~r.ok THEN FragFail(base, r.why)
        ELSE Frag(base, r.next - base, fs[1].start, fs[Len(fs)].exit,
                  UNION {fs[i].edges : i \in DOMAIN fs}
                  \cup {EpsEdge(fs[i].exit, fs[i + 1].start) : i \in 1..(Len(fs) - 1)})

\* The fragments r.frags between a shared entry and a shared exit
AlternationFragment(base, r) ==
    LET fs == r.frags
        entry == base + 1
        exit == r.next + 1
    IN  IF ~r.ok THEN FragFail(base, r.why)
        ELSE Frag(base, exit - base, entry, exit,
                  UNION {fs[i].edges : i \in DOMAIN fs}
                  \cup {EpsEdge(entry, fs[i].start) : i \in DOMAIN fs}
                  \cup {EpsEdge(fs[i].exit, exit) : i \in DOMAIN fs})

\* The fragment f repeated: skipped when min is 0, looped when max is unbounded
RepeatFragment(node, base, f) ==
    LET entry == base + 1
        exit == base + 1 + f.n + 1
    IN  IF ~f.ok THEN FragFail(base, f.why)
        ELSE Frag(base, f.n + 2, entry, exit,
                  f.edges
                  \cup {EpsEdge(entry, f.start), EpsEdge(f.exit, exit)}
                  \cup (IF node.min = 0 THEN {EpsEdge(entry, exit)} ELSE {})
                  \cup (IF node.max = None THEN {EpsEdge(f.exit, f.start)} ELSE {}))

\* A variable's parsed definition, built in place of the reference
Expand(parsed, base, lookup, visiting) ==
    IF ~parsed.ok THEN FragFail(base, "syntax error")
    ELSE Fragment(parsed.ast, base, lookup, visiting)

Fragment(node, base, lookup, visiting) ==
    CASE node.kind = "Literal" ->
            Frag(base, 2, base + 1, base + 2,
                 {CharEdge(base + 1, base + 2, {<<node.ch, node.ch>>})})
      [] node.kind = "CharClass" ->
            Frag(base, 2, base + 1, base + 2, {CharEdge(base + 1, base + 2, node.ranges)})
      [] node.kind = "Concat" ->
            ConcatFragment(base, FragmentSeq(node.kids, 1, base, lookup, visiting, <<>>))
      [] node.kind = "Alternation" ->
            AlternationFragment(base,
                FragmentSeq(node.kids, 1, base + 1, lookup, visiting, <<>>))
      [] node.kind = "Repeat" ->
            RepeatFragment(node, base, Fragment(node.kid, base + 1, lookup, visiting))
      [] node.kind = "VariableRef" ->
            IF node.name \in visiting THEN FragFail(base, "definition cycle")
            ELSE IF node.name \notin DOMAIN lookup THEN FragFail(base, "variable not found")
            ELSE Expand(Parse(lookup[node.name].regex, lookup[node.name].is_case_insensitive),
                        base, lookup, visiting \cup {node.name})

\* The automaton of a whole fragment, its exit tagged rule_id
Tagged(rule_id, f) ==
    [ok |-> f.ok, why |-> f.why,
     nfa |-> [n |-> f.n, start |-> f.start, final |-> f.exit,
              edges |-> f.edges, id |-> rule_id]]

\* NonDeterministicFiniteBuilder.build(rule_id, lookup, regex)
Build(rule_id, lookup, regex) == Tagged(rule_id, Fragment(regex, 0, lookup, {}))

(***************************************************************************)
(* The rules-file AST handed to the builder: the declarations of the root  *)
(* section in source order, a sub-section being the declarations between   *)
(* its "section" and its "end".  A section is named by the index of its    *)
(* "section" declaration, the root by 0; a rule's line number is its       *)
(* index.                                                                  *)
(***************************************************************************)
Pattern(regex, ci) == [regex |-> regex, is_case_insensitive |-> ci]

RuleDecl(id, pattern, rule_action, section_action) ==
    [kind |-> "rule", id |-> id, inherits |-> FALSE, pattern |-> pattern,
     rule_action |-> rule_action, section_action |-> section_action]
SectionDecl(name, inherits) ==
    [kind |-> "section", id |-> name, inherits |-> inherits, pattern |-> None,
     rule_action |-> <<>>, section_action |-> None]
DefineDecl(name, pattern) ==
    [kind |-> "define", id |-> name, inherits |-> FALSE, pattern |-> Some(pattern),
     rule_action |-> <<>>, section_action |-> None]
EndDecl ==
    [kind |-> "end", id |-> None, inherits |-> FALSE, pattern |-> None,
     rule_action |-> <<>>, section_action |-> None]

RESERVE == <<"r","e","s","e","r","v","e">>
IMPORT == <<"i","m","p","o","r","t">>
SKIP == <<"S","k","i","p">>

Root == 0

\* The open sections, innermost last, after the first k declarations of g
RECURSIVE StackAt(_, _)
StackAt(g, k) ==
    IF k = 0 THEN <<Root>>
    ELSE LET st == StackAt(g, k - 1)
         IN  IF g[k].kind = "section" THEN Append(st, k)
             ELSE IF g[k].kind = "end" THEN SubSeq(st, 1, Len(st) - 1)
             ELSE st

\* Every "end" closes a sub-section, and every sub-section is closed
Nested(g) ==
    /\ \A k \in DOMAIN g : g[k].kind = "end" => Len(StackAt(g, k - 1)) > 1
    /\ Len(StackAt(g, Len(g))) = 1

\* The section declaration i is made in
SectionOf(g, i) == LET st == StackAt(g, i - 1) IN st[Len(st)]

AllSections(g) == {Root} \cup {i \in DOMAIN g : g[i].kind = "section"}

\* section.parent
Parent(g, s) == IF s = Root THEN None ELSE Some(SectionOf(g, s))

Children(g, s) == {c \in DOMAIN g : g[c].kind = "section" /\ SectionOf(g, c) = s}

\* The declarations of one kind made directly in section s
Declared(g, s, kind) == {i \in DOMAIN g : g[i].kind = kind /\ SectionOf(g, i) = s}

\* section.get_qualified_name(): the names from the root down to s
RECURSIVE QualifiedName(_, _)
QualifiedName(g, s) ==
    IF s = Root THEN <<>> ELSE Append(QualifiedName(g, SectionOf(g, s)), g[s].id)

HasAction(rule, keyword) == \E k \in DOMAIN rule.rule_action : rule.rule_action[k] = keyword

\* The entries of one scope table of section s (its keys are identifiers)
Scope(g, s, table) ==
    CASE table = "future_import" -> {i \in Declared(g, s, "rule") : HasAction(g[i], IMPORT)}
      [] table = "reservation" -> {i \in Declared(g, s, "rule") : HasAction(g[i], RESERVE)}
      [] table = "define" -> Declared(g, s, "define")

\* section.find(table, id): the entry of the nearest section, from s up to the root
RECURSIVE Find(_, _, _, _)
Find(g, s, table, id) ==
    LET hits == {i \in Scope(g, s, table) : g[i].id = id}
    IN  IF hits # {} THEN Some(CHOOSE i \in hits : TRUE)
        ELSE IF s = Root THEN None
        ELSE Find(g, SectionOf(g, s), table, id)

\* SectionResolver.resolve(name, from): a child of from, else of its ancestors in turn
RECURSIVE Resolve(_, _, _)
Resolve(g, name, from) ==
    LET hits == {c \in Children(g, from) : g[c].id = name}
    IN  IF hits # {} THEN Some(CHOOSE c \in hits : TRUE)
        ELSE IF from = Root THEN None
        ELSE Resolve(g, name, SectionOf(g, from))

\* A scope table has one entry per identifier, and sibling sections differ in name
WellFormed(g) ==
    /\ Nested(g)
    /\ \A s \in AllSections(g) :
          /\ \A table \in {"future_import", "reservation", "define"} :
                \A i, j \in Scope(g, s, table) : g[i].id = g[j].id => i = j
          /\ \A c, d \in Children(g, s) : g[c].id = g[d].id => c = d

\* The visible variable definitions of section s: name -> pattern
DefineLookup(g, s) ==
    LET names == {g[i].id : i \in {j \in DOMAIN g : g[j].kind = "define"}}
        seen == {n \in names : Find(g, s, "define", n) # None}
    IN  [n \in seen |-> Val(g[Val(Find(g, s, "define", n))].pattern)]

(***************************************************************************)
(* NonDeterministicIR.Builder                                              *)
(***************************************************************************)
\* rule.throw(message): the exception, located at the rule
Throw(i, message) == [rule |-> i, message |-> message]

\* The text of a message: what precedes the detail names the rule, or is empty
Message(prefix, id, detail) == [prefix |-> prefix, id |-> id, detail |-> detail]

\* A section that forgets its parent
NewSectionOrphan(inherits, parent) == [rules |-> <<>>, inherits |-> inherits, parent |-> None]

\* NonDeterministicIR.Section(inherits=..., parent=...)
NewSection(inherits, parent) == [rules |-> <<>>, inherits |-> inherits, parent |-> parent]

\* NonDeterministicIR.Rule(id, nfa, action, section_action, line_number)
NewRule(id, nfa, action, section_action, line_number) ==
    [id |-> id, nfa |-> nfa, action |-> action, section_action |-> section_action,
     line_number |-> line_number]

\* section.inherits
Inherits(g, s) == IF s = Root THEN FALSE ELSE g[s].inherits

\* if rule.pattern is None
LacksPattern(rule) == rule.pattern = None

\* A build that forgets the assignment of the reservation's pattern
InheritedPatternForgotten(rule, reservation) == rule.pattern

\* The pattern an imported rule without one is given
InheritedPattern(rule, reservation) == reservation.pattern

\* A build that gives an imported rule its reservation's pattern over its own
ResolveImportOverwriting(i, rule, reservation) ==
    IF reservation = None
    THEN [err |-> Some(Throw(i, Message("", None, "reservation not found for imported rule"))),
          pattern |-> rule.pattern]
    ELSE IF LacksPattern(rule) /\ LacksPattern(Val(reservation))
    THEN [err |-> Some(Throw(i, Message("", None,
              "pattern must be defined for imported rule if not defined by reservation rule"))),
          pattern |-> rule.pattern]
    ELSE IF LacksPattern(Val(reservation)) THEN [err |-> None, pattern |-> rule.pattern]
    ELSE [err |-> None, pattern |-> InheritedPattern(rule, Val(reservation))]

\* A build that does not check that the reservation has a pattern to give
ResolveImportUnchecked(i, rule, reservation) ==
    IF reservation = None
    THEN [err |-> Some(Throw(i, Message("", None, "reservation not found for imported rule"))),
          pattern |-> rule.pattern]
    ELSE IF LacksPattern(rule)
    THEN [err |-> None, pattern |-> InheritedPattern(rule, Val(reservation))]
    ELSE [err |-> None, pattern |-> rule.pattern]

\* One imported rule resolved against its reservation: the rule's pattern afterwards,
\* or the exception
ResolveImport(i, rule, reservation) ==
    IF reservation = None
    THEN [err |-> Some(Throw(i, Message("", None, "reservation not found for imported rule"))),
          pattern |-> rule.pattern]
    ELSE IF LacksPattern(rule)
    THEN IF LacksPattern(Val(reservation))
         THEN [err |-> Some(Throw(i, Message("", None,
                   "pattern must be defined for imported rule if not defined by reservation rule"))),
               pattern |-> rule.pattern]
         ELSE [err |-> None, pattern |-> InheritedPattern(rule, Val(reservation))]
    ELSE [err |-> None, pattern |-> rule.pattern]

\* section.find('reservation', rule.id)[0]
Reservation(g, s, id) ==
    IF Find(g, s, "reservation", id) = None THEN None
    ELSE Some(g[Val(Find(g, s, "reservation", id))])

\* The loop of visit_section over the future imports, taken in the given order:
\* the AST it leaves and the exception it raised, if any
RECURSIVE ResolveImports(_, _, _, _)
RECURSIVE ImportsMore(_, _, _, _, _)
ResolveImports(g, s, order, k) ==
    IF k > Len(order) THEN [ast |-> g, err |-> None]
    ELSE ImportsMore(g, s, order, k,
            ResolveImport(order[k], g[order[k]], Reservation(g, s, g[order[k]].id)))

ImportsMore(g, s, order, k, r) ==
    IF r.err # None THEN [ast |-> g, err |-> r.err]
    ELSE ResolveImports([g EXCEPT ![order[k]].pattern = r.pattern], s, order, k + 1)

\* The orders a table of entries can be iterated in
Orders(S) == {f \in [1..Cardinality(S) -> S] : \A a, b \in DOMAIN f : f[a] = f[b] => a = b}

AtSection == pc = 0 \/ (pc \in DOMAIN ast /\ ast[pc].kind = "section")
AtRule == pc \in DOMAIN ast /\ ast[pc].kind = "rule"
AtEnd == pc = Len(ast) + 1 \/ (pc \in DOMAIN ast /\ ast[pc].kind = "end")

\* The Traverser hands the builder sections and rules; a definition is passed over
RECURSIVE Advance(_, _)
Advance(g, p) ==
    IF p + 1 \in DOMAIN g /\ g[p + 1].kind = "define" THEN Advance(g, p + 1) ELSE p + 1

VisitSection ==
    /\ status = "building"
    /\ AtSection
    /\ LET section == pc
       IN  \E order \in Orders(Scope(ast, section, "future_import")) :
              LET r == ResolveImports(ast, section, order, 1)
                  parent_id ==
                      IF Parent(ast, section) # None
                      THEN Some(QualifiedName(ast, Val(Parent(ast, section))))
                      ELSE None
                  name == QualifiedName(ast, section)
                  ref == Len(heap) + 1
              IN  /\ ast' = r.ast
                  /\ IF r.err # None
                     THEN /\ status' = "failed"
                          /\ error' = r.err
                          /\ UNCHANGED <<pc, current_ast_section, current_ir_section,
                                         heap, sections>>
                     ELSE /\ current_ast_section' = Some(section)
                          /\ heap' = Append(heap, NewSection(Inherits(ast, section), parent_id))
                          /\ current_ir_section' = Some(ref)
                          /\ sections' = [q \in DOMAIN sections \cup {name} |->
                                             IF q = name THEN ref ELSE sections[q]]
                          /\ pc' = Advance(ast, pc)
                          /\ UNCHANGED <<status, error>>
    /\ UNCHANGED <<ast0, rule_ids, ir, later>>

\* rule.id.lower() if rule.id is not None else None
RuleIdLower(rule) == IF rule.id # None THEN Lower(rule.id) ELSE None

\* The outcome of the NFA build of a rule
Compiled(built) ==
    IF built.ok THEN [ok |-> TRUE, why |-> "", nfa |-> Some(built.nfa)]
    ELSE [ok |-> FALSE, why |-> built.why, nfa |-> None]

\* The parsed regex built into an NFA tagged with the lowered id of the rule
BuildRule(g, cur, rule, parsed) ==
    IF ~parsed.ok THEN [ok |-> FALSE, why |-> "syntax error", nfa |-> None]
    ELSE Compiled(Build(RuleIdLower(rule), DefineLookup(g, cur), parsed.ast))

\* A compilation that parses every pattern as case-sensitive
CompileRuleCaseBlind(g, cur, rule) ==
    IF rule.pattern = None
    THEN [ok |-> FALSE, why |-> "'NoneType' object has no attribute 'regex'", nfa |-> None]
    ELSE BuildRule(g, cur, rule, Parse(Val(rule.pattern).regex, FALSE))

\* Regex.Parser(rule.pattern.regex, ...).parse(), then the NFA build
CompileRule(g, cur, rule) ==
    IF rule.pattern = None
    THEN [ok |-> FALSE, why |-> "'NoneType' object has no attribute 'regex'", nfa |-> None]
    ELSE BuildRule(g, cur, rule,
                   Parse(Val(rule.pattern).regex, Val(rule.pattern).is_case_insensitive))

\* A build that keeps the name of a target it cannot resolve
ResolveSectionActionUnchecked(g, cur, rule) ==
    IF rule.section_action = None THEN [ok |-> TRUE, section_action |-> None]
    ELSE IF Val(rule.section_action).section = None
    THEN [ok |-> TRUE,
          section_action |-> Some([action |-> Val(rule.section_action).action,
                                   section |-> None])]
    ELSE [ok |-> TRUE,
          section_action |->
              Some([action |-> Val(rule.section_action).action,
                    section |->
                        IF Resolve(g, Val(Val(rule.section_action).section), cur) = None
                        THEN Some(<<Val(Val(rule.section_action).section)>>)
                        ELSE Some(QualifiedName(g,
                                 Val(Resolve(g, Val(Val(rule.section_action).section), cur))))])]

\* The section action of the IR rule: the target replaced by its qualified name
ResolveSectionAction(g, cur, rule) ==
    IF rule.section_action = None THEN [ok |-> TRUE, section_action |-> None]
    ELSE LET action == Val(rule.section_action).action
             section == Val(rule.section_action).section
         IN  IF section = None
             THEN [ok |-> TRUE,
                   section_action |-> Some([action |-> action, section |-> None])]
             ELSE LET rule_section == Resolve(g, Val(section), cur)
                  IN  IF rule_section = None
                      THEN [ok |-> FALSE, section_action |-> None]
                      ELSE [ok |-> TRUE,
                            section_action |->
                                Some([action |-> action,
                                      section |-> Some(QualifiedName(g, Val(rule_section)))])]

\* [i.lower() if i is not None else None for i in rule.rule_action]
RuleAction(rule) == [k \in DOMAIN rule.rule_action |-> Lower(rule.rule_action[k])]

\* The IR rule of a compiled rule, once its section action resolves
Assemble(g, cur, i, compiled) ==
    LET resolved == ResolveSectionAction(g, cur, g[i])
    IN  IF ~compiled.ok THEN [ok |-> FALSE, why |-> compiled.why, ir_rule |-> None]
        ELSE IF ~resolved.ok
        THEN [ok |-> FALSE, why |-> "section not found", ir_rule |-> None]
        ELSE [ok |-> TRUE, why |-> "",
              ir_rule |-> Some(NewRule(g[i].id, Val(compiled.nfa), RuleAction(g[i]),
                                       resolved.section_action, i))]

\* The body of the try block for a rule that is no reservation
TryVisitRule(g, cur, i) == Assemble(g, cur, i, CompileRule(g, cur, g[i]))

\* if rule.id is not None and rule_id_lower not in self.rule_ids: self.rule_ids[rule.id] = rule.id
RuleIdsAfter(ids, rule) ==
    IF rule.id # None /\ RuleIdLower(rule) \notin DOMAIN ids
    THEN [k \in DOMAIN ids \cup {rule.id} |-> IF k = rule.id THEN rule.id ELSE ids[k]]
    ELSE ids

\* The exception handler of visit_rule
RuleError(i, rule, why) ==
    IF rule.id = None
    THEN Throw(i, Message("anonymous rule", None, why))
    ELSE Throw(i, Message("rule", rule.id, why))

\* A builder that swallows the exception of a rule and goes on
AfterRuleSwallowing(rule, r) ==
    IF HasAction(rule, RESERVE) \/ ~r.ok
    THEN /\ pc' = Advance(ast, pc)
         /\ UNCHANGED <<status, error, heap, rule_ids>>
    ELSE /\ heap' = [heap EXCEPT ![Val(current_ir_section)].rules =
                                    Append(@, Val(r.ir_rule))]
         /\ rule_ids' = RuleIdsAfter(rule_ids, rule)
         /\ pc' = Advance(ast, pc)
         /\ UNCHANGED <<status, error>>

\* The builder after visit_rule, given the outcome r of the try block
AfterRule(rule, r) ==
    IF HasAction(rule, RESERVE)
    THEN /\ pc' = Advance(ast, pc)
         /\ UNCHANGED <<status, error, heap, rule_ids>>
    ELSE IF r.ok
    THEN /\ heap' = [heap EXCEPT ![Val(current_ir_section)].rules =
                                    Append(@, Val(r.ir_rule))]
         /\ rule_ids' = RuleIdsAfter(rule_ids, rule)
         /\ pc' = Advance(ast, pc)
         /\ UNCHANGED <<status, error>>
    ELSE /\ status' = "failed"
         /\ error' = Some(RuleError(pc, rule, r.why))
         /\ UNCHANGED <<pc, heap, rule_ids>>

VisitRule ==
    /\ status = "building"
    /\ AtRule
    /\ AfterRule(ast[pc], TryVisitRule(ast, Val(current_ast_section), pc))
    /\ UNCHANGED <<ast0, ast, current_ast_section, current_ir_section, sections, ir,
                   later>>

\* A builder that leaves the IR section of the section just left as the current one
ScopeAfterLeaveStale(g, section, table) ==
    [ast_section |-> Parent(g, section),
     ir_section |-> Some(table[QualifiedName(g, section)])]

\* The scope after leaving a section: its parent, and the IR section registered for it
ScopeAfterLeave(g, section, table) ==
    LET parent == Parent(g, section)
    IN  [ast_section |-> parent,
         ir_section |-> IF parent # None
                        THEN Some(table[QualifiedName(g, Val(parent))])
                        ELSE None]

LeaveSection ==
    /\ status = "building"
    /\ AtEnd
    /\ LET section == LET st == StackAt(ast, pc - 1) IN st[Len(st)]
           after == ScopeAfterLeave(ast, section, sections)
       IN  /\ current_ast_section' = after.ast_section
           /\ current_ir_section' = after.ir_section
    /\ pc' = Advance(ast, pc)
    /\ UNCHANGED <<ast0, ast, status, error, heap, sections, rule_ids, ir, later>>

\* NonDeterministicIR.__init__, once the traversal has returned
Construct ==
    /\ status = "building"
    /\ pc = Len(ast) + 2
    /\ ir' = Some([sections |-> sections, rule_ids |-> rule_ids,
                   root |-> QualifiedName(ast, Root)])
    /\ status' = "built"
    /\ UNCHANGED <<ast0, ast, pc, error, current_ast_section, current_ir_section,
                   heap, sections, rule_ids, later>>

\* No plug-in file is being loaded
NoLoad ==
    /\ plugin_file = None
    /\ load_pc = "idle"
    /\ remaining = {}
    /\ language_plugins = <<>>
    /\ default_language = None
    /\ load_error = None

\* No Plugin object is in use
NoPlugin ==
    /\ module = None
    /\ dependency_modules = {}
    /\ verified = FALSE
    /\ emitter_made = None
    /\ plugin_error = None
    /\ calls = 0

\* No emitter is being constructed
NoConstruction ==
    /\ plugin_options = None
    /\ c_emitter = None
    /\ construct_error = None

\* The generator before the traversal of a grammar
InitGenerator ==
    /\ ast0 = ast
    /\ pc = 0
    /\ status = "building"
    /\ error = None
    /\ current_ast_section = None
    /\ current_ir_section = None
    /\ heap = <<>>
    /\ sections = <<>>
    /\ rule_ids = <<>>
    /\ ir = None
    /\ dfa = None
    /\ min_dfa = None
    /\ reminimized = None
    /\ emitted = <<>>
    /\ emit_error = None

\* Builder.__init__, before the traversal of a grammar
InitBuilder == InitGenerator /\ NoLoad /\ NoPlugin /\ NoConstruction

(***************************************************************************)
(* The lexical analyzer made of the IR: the NFAs of the root section's     *)
(* rules merged behind a shared start state, determinized by subset        *)
(* construction and minimized by partition refinement.  A DFA state is     *)
(* named by the set it stands for: a set of NFA states after               *)
(* determinization, a class of DFA states after minimization.              *)
(***************************************************************************)
\* The rules of the IR's root section, in priority order
RootRules == heap[sections[Val(ir).root]].rules

RECURSIVE Offset(_, _)
\* The number of states before those of the k-th rule's NFA in the merged NFA
Offset(rules, k) == IF k = 1 THEN 1 ELSE Offset(rules, k - 1) + rules[k - 1].nfa.n

Shift(e, off) == [from |-> e.from + off, to |-> e.to + off, eps |-> e.eps, ranges |-> e.ranges]

\* One NFA per section: an epsilon move from the shared start to each rule's start
SectionNFA(rules) ==
    [start |-> 1,
     edges |-> UNION {{Shift(e, Offset(rules, k)) : e \in rules[k].nfa.edges}
                      \cup {EpsEdge(1, Offset(rules, k) + rules[k].nfa.start)}
                      : k \in DOMAIN rules},
     tags |-> {<<Offset(rules, k) + rules[k].nfa.final, rules[k].nfa.id>>
               : k \in DOMAIN rules}]

RECURSIVE Closure(_, _)
\* The epsilon closure of a set of NFA states
Closure(edges, S) ==
    LET T == S \cup {e.to : e \in {x \in edges : x.eps /\ x.from \in S}}
    IN  IF T = S THEN S ELSE Closure(edges, T)

\* The NFA states reached from S by reading the codepoint c
Move(edges, S, c) ==
    {e.to : e \in {x \in edges : ~x.eps /\ x.from \in S /\ c \in Covered(x.ranges)}}

\* The codepoints some edge out of S reads
Symbols(edges, S) == UNION {Covered(e.ranges) : e \in {x \in edges : ~x.eps /\ x.from \in S}}

\* The subset reached from the subset S by reading c
Destination(edges, S, c) == Closure(edges, Move(edges, S, c))

RECURSIVE Subsets(_, _, _)
\* The subsets reachable from those of todo, memoized in done
Subsets(edges, todo, done) ==
    IF todo = {} THEN done
    ELSE LET S == CHOOSE x \in todo : TRUE
         IN  Subsets(edges,
                     (todo \cup {Destination(edges, S, c) : c \in Symbols(edges, S)})
                         \ (done \cup {S}),
                     done \cup {S})

\* The rule identifiers of the NFA final states in a subset
SubsetFinalIds(nfa, S) == {t[2] : t \in {x \in nfa.tags : x[1] \in S}}

\* The edge of a DFA from S to T: the maximal ranges of the codepoints leading there
SubsetEdge(edges, S, T) ==
    [from |-> S, to |-> T,
     ranges |-> NormalizeRanges({<<c, c>> : c \in {x \in Symbols(edges, S) :
                                                    Destination(edges, S, x) = T}})]

\* determinize(NFA) -> DFA
determinize(nfa) ==
    LET start == Closure(nfa.edges, {nfa.start})
        states == Subsets(nfa.edges, {start}, {})
    IN  [states |-> states,
         start |-> start,
         edges |-> {e \in {SubsetEdge(nfa.edges, S, T) : S \in states, T \in states} :
                       e.ranges # {}},
         final_ids |-> [S \in states |-> SubsetFinalIds(nfa, S)]]

\* The codepoints some edge of a DFA reads
Alphabet(d) == UNION {Covered(e.ranges) : e \in d.edges}

\* The state a DFA moves to from s on c, if an edge covers c
Step(d, s, c) ==
    LET out == {e \in d.edges : e.from = s /\ c \in Covered(e.ranges)}
    IN  IF out = {} THEN None ELSE Some((CHOOSE e \in out : TRUE).to)

ClassOf(P, s) == CHOOSE C \in P : s \in C

\* The class a state moves to on each codepoint; no class where no edge covers it
Signature(d, P, s) ==
    [c \in Alphabet(d) |->
        IF Step(d, s, c) = None THEN {} ELSE ClassOf(P, Val(Step(d, s, c)))]

\* Every class split into its members of equal signature
Refine(d, P) ==
    UNION {{{t \in C : Signature(d, P, t) = Signature(d, P, s)} : s \in C} : C \in P}

RECURSIVE Partition(_, _)
\* The fixed point of the refinement
Partition(d, P) == IF Refine(d, P) = P THEN P ELSE Partition(d, Refine(d, P))

\* States start partitioned by their final ids
FinalClasses(d) ==
    {{t \in d.states : d.final_ids[t] = d.final_ids[s]} : s \in d.states}

Representative(C) == CHOOSE s \in C : TRUE

\* A minimized DFA that starts in whichever class comes first
QuotientAnyStart(d, P) ==
    [states |-> P,
     start |-> CHOOSE C \in P : TRUE,
     edges |-> {e \in {[from |-> C, to |-> D,
                        ranges |-> NormalizeRanges(UNION {x.ranges : x \in
                                      {y \in d.edges : y.from = Representative(C)
                                                       /\ y.to \in D}})]
                       : C \in P, D \in P} :
                   e.ranges # {}},
     final_ids |-> [C \in P |-> d.final_ids[Representative(C)]]]

\* The minimized DFA of the classes P: edges and final ids of a representative
Quotient(d, P) ==
    [states |-> P,
     start |-> ClassOf(P, d.start),
     edges |-> {e \in {[from |-> C, to |-> D,
                        ranges |-> NormalizeRanges(UNION {x.ranges : x \in
                                      {y \in d.edges : y.from = Representative(C)
                                                       /\ y.to \in D}})]
                       : C \in P, D \in P} :
                   e.ranges # {}},
     final_ids |-> [C \in P |-> d.final_ids[Representative(C)]]]

\* minimize(DFA) -> DFA
minimize(d) == Quotient(d, Partition(d, FinalClasses(d)))

\* LexicalAnalyzer: the root section's NFAs determinized
DeterminizeStage ==
    /\ status = "built"
    /\ dfa' = Some(determinize(SectionNFA(RootRules)))
    /\ status' = "determinized"
    /\ UNCHANGED <<ast0, ast, pc, error, current_ast_section, current_ir_section,
                   heap, sections, rule_ids, ir, min_dfa, reminimized, emitted, emit_error,
                   outside>>

\* LexicalAnalyzer: the DFA minimized, the analyzer finalized
MinimizeStage ==
    /\ status = "determinized"
    /\ min_dfa' = Some(minimize(Val(dfa)))
    /\ status' = "finalized"
    /\ UNCHANGED <<ast0, ast, pc, error, current_ast_section, current_ir_section,
                   heap, sections, rule_ids, ir, dfa, reminimized, emitted, emit_error,
                   outside>>

\* minimize applied to the DFA it returned
MinimizeAgain ==
    /\ status = "finalized"
    /\ reminimized = None
    /\ reminimized' = Some(minimize(Val(min_dfa)))
    /\ UNCHANGED <<ast0, ast, pc, status, error, current_ast_section, current_ir_section,
                   heap, sections, rule_ids, ir, dfa, min_dfa, emitted, emit_error,
                   outside>>

RECURSIVE Run(_, _, _, _)
\* The state of a DFA after reading w[k..] from s; none once no edge covers a codepoint
Run(d, s, w, k) ==
    IF s = None \/ k > Len(w) THEN s
    ELSE Run(d, Step(d, Val(s), w[k]), w, k + 1)

\* The final ids of the state a DFA ends in on w
Outcome(d, w) ==
    LET s == Run(d, Some(d.start), w, 1)
    IN  IF s = None THEN {} ELSE d.final_ids[Val(s)]

RECURSIVE Read(_, _, _, _)
\* The NFA states after reading w[k..] from the closed set S
Read(edges, S, w, k) ==
    IF k > Len(w) THEN S ELSE Read(edges, Destination(edges, S, w[k]), w, k + 1)

\* The tags of the NFA final states reached on w
NfaOutcome(nfa, w) ==
    SubsetFinalIds(nfa, Read(nfa.edges, Closure(nfa.edges, {nfa.start}), w, 1))

(***************************************************************************)
(* CAsciiEmitter.generate_state_machine: one "case" of the scanner's       *)
(* switch per state of the minimized DFA.  The code of a case is kept by   *)
(* what it does: the end-of-stream branch of the start state, a branch     *)
(* "state = destination" per outgoing edge, and the statements that run    *)
(* when no branch is taken.                                                *)
(***************************************************************************)
\* lexical_analyzer.rules: identifier and action of the root section's rules
AnalyzerRules ==
    [k \in DOMAIN RootRules |->
        [id |-> RootRules[k].id,
         action |-> IF RootRules[k].action = <<>> THEN None
                    ELSE Some(RootRules[k].action[1])]]

\* tokens_by_priority = [rule.id for rule in self.lexical_analyzer.rules]
TokensByPriority == [k \in DOMAIN AnalyzerRules |-> AnalyzerRules[k].id]

\* list.index(x): the first position of x, none standing for the ValueError
Index(list, x) ==
    IF \E k \in DOMAIN list : list[k] = x
    THEN Some(CHOOSE k \in DOMAIN list : list[k] = x /\ \A j \in 1..(k - 1) : list[j] # x)
    ELSE None

\* min(state.final_ids, key = lambda x: tokens_by_priority.index(x)).upper()
SelectToken(final_ids) ==
    IF \E x \in final_ids : Index(TokensByPriority, x) = None
    THEN [ok |-> FALSE, token |-> None]
    ELSE [ok |-> TRUE,
          token |-> Some(Upper(CHOOSE x \in final_ids : \A y \in final_ids :
                           Val(Index(TokensByPriority, x)) <= Val(Index(TokensByPriority, y))))]

\* [rule for rule in self.lexical_analyzer.rules if rule.id.upper() == token][0]
RuleOfToken(token) ==
    AnalyzerRules[CHOOSE k \in DOMAIN AnalyzerRules :
                     /\ Upper(AnalyzerRules[k].id) = token
                     /\ \A j \in 1..(k - 1) : Upper(AnalyzerRules[j].id) # token]

\* rule.action is not None and rule.action.lower() == 'skip'
IsSkip(rule) == rule.action # None /\ Lower(Val(rule.action)) = Lower(SKIP)

\* The statements of a state with final ids: the scanner reset for a skipped
\* token, the token returned otherwise
FinalStatements(d, selected) ==
    IF ~selected.ok THEN [ok |-> FALSE, kind |-> "", token |-> None, state |-> None]
    ELSE IF IsSkip(RuleOfToken(Val(selected.token)))
    THEN [ok |-> TRUE, kind |-> "reset", token |-> selected.token, state |-> Some(d.start)]
    ELSE [ok |-> TRUE, kind |-> "token", token |-> selected.token, state |-> None]

\* An emitter that restarts the scanner where it has no token to return
ElseStatementsRestarting(d, state) ==
    IF d.final_ids[state] # {} THEN FinalStatements(d, SelectToken(d.final_ids[state]))
    ELSE [ok |-> TRUE, kind |-> "reset", token |-> None, state |-> Some(d.start)]

\* The statements run when no edge is taken
ElseStatements(d, state) ==
    IF d.final_ids[state] # {} THEN FinalStatements(d, SelectToken(d.final_ids[state]))
    ELSE [ok |-> TRUE, kind |-> "invalid", token |-> None, state |-> None]

\* The case of a state, or the exception raised while writing it
EmitCase(d, state) ==
    [ok |-> ElseStatements(d, state).ok,
     code |-> [state |-> state,
               feof |-> state = d.start,
               branches |-> {[ranges |-> e.ranges, state |-> e.to]
                             : e \in {x \in d.edges : x.from = state}},
               guarded |-> \E e \in d.edges : e.from = state,
               otherwise |-> ElseStatements(d, state)]]

EmittedStates == {emitted[k].state : k \in DOMAIN emitted}

\* An iteration of "for i, state in enumerate(self.dfa)"
EmitState ==
    /\ status = "finalized"
    /\ emit_error = None
    /\ \E state \in Val(min_dfa).states \ EmittedStates :
          IF EmitCase(Val(min_dfa), state).ok
          THEN /\ emitted' = Append(emitted, EmitCase(Val(min_dfa), state).code)
               /\ emit_error' = emit_error
          ELSE /\ emitted' = emitted
               /\ emit_error' = Some("ValueError")
    /\ UNCHANGED <<ast0, ast, pc, status, error, current_ast_section, current_ir_section,
                   heap, sections, rule_ids, ir, dfa, min_dfa, reminimized, outside>>

\* What the scanner does in an emitted case on the character c, or at the end of
\* the stream: the statements it runs, in order
Execute(code, c, at_end) ==
    LET taken == {b \in code.branches : c \in Covered(b.ranges)}
        otherwise == <<[kind |-> code.otherwise.kind, token |-> code.otherwise.token,
                        state |-> code.otherwise.state]>>
        first == IF code.feof /\ at_end
                 THEN <<[kind |-> "end of stream", token |-> None, state |-> None]>>
                 ELSE IF taken # {}
                 THEN <<[kind |-> "goto", token |-> None,
                         state |-> Some((CHOOSE b \in taken : TRUE).state)]>>
                 ELSE <<>>
    IN  IF code.guarded THEN (IF first = <<>> THEN otherwise ELSE first)
        ELSE first \o otherwise

(***************************************************************************)
(* Generator/LanguagePlugins.py: load.  The plug-in file is the JSON       *)
(* document read from it: a value is text, a number or a list; a path is   *)
(* the sequence of its components, an absolute one starting with "/"; an   *)
(* object is the sequence of its members in the order the code iterates    *)
(* over them.                                                              *)
(***************************************************************************)
Text(t) == [type |-> "text", text |-> t, items |-> <<>>]
Number(n) == [type |-> "number", text |-> <<>>, items |-> <<n>>]
List(items) == [type |-> "list", text |-> <<>>, items |-> items]

\* isinstance(text, str) or isinstance(text, unicode)
is_text(v) == v.type = "text"

\* os.path.isabs
IsAbs(path) == path # <<>> /\ path[1] = "/"

\* The application's root directory and the paths that exist below and beside it
BaseDirectory == <<"/", "app">>
ExistingPaths ==
    {BaseDirectory,
     BaseDirectory \o <<"c.py">>,
     BaseDirectory \o <<"dep.py">>,
     <<"/", "files">>}

\* os.path.exists
Exists(path) == path \in ExistingPaths

\* A path resolution that does not look the path up
is_path_unchecked(v, base_directory) ==
    IF is_text(v)
    THEN Some(IF ~IsAbs(v.text) THEN base_directory \o v.text ELSE v.text)
    ELSE None

\* is_path(text, base_directory): the resolved path, or None if not a path
is_path(v, base_directory) ==
    IF is_text(v)
    THEN LET path == IF ~IsAbs(v.text) THEN base_directory \o v.text ELSE v.text
         IN  IF Exists(path) THEN Some(path) ELSE None
    ELSE None

\* re.match("[a-zA-Z][a-zA-Z0-9_\-\+]*", plugin_id): a match at the start of the text
MatchesPluginId(plugin_id) == Len(plugin_id) >= 1 /\ IsLetter(plugin_id[1])

\* Plugin.__init__
NewPlugin(source_path, plugin_files_directory, dependencies, description) ==
    [source_path |-> source_path, plugin_files_directory |-> plugin_files_directory,
     description |-> description, dependencies |-> dependencies,
     module |-> None, dependency_modules |-> <<>>]

\* What iterating over a JSON value yields: the items of a list, the characters of
\* a text piece by piece; a number is not iterable
Iterable(v) == v.type # "number"
Iterated(v) ==
    IF v.type = "list" THEN v.items ELSE [k \in DOMAIN v.text |-> Text(<<v.text[k]>>)]

\* The loop over the attributes of a plug-in, from the k-th on: acc holds valid,
\* plugin_paths, dependencies, description and whether an exception was raised
RECURSIVE ReadAttributes(_, _, _)
ReadAttributes(entry, k, acc) ==
    IF k > Len(entry) \/ acc.raised THEN acc
    ELSE LET plugin_attr == entry[k].name
             value == entry[k].value
         IN  ReadAttributes(entry, k + 1,
                CASE plugin_attr \in {"Source", "Files"} ->
                        [acc EXCEPT
                            !.plugin_paths =
                                [a \in DOMAIN @ \cup {plugin_attr} |->
                                    IF a = plugin_attr THEN is_path(value, BaseDirectory)
                                    ELSE @[a]],
                            !.valid = @ /\ is_path(value, BaseDirectory) # None]
                  [] plugin_attr = "Dependencies" ->
                        IF ~Iterable(value) THEN [acc EXCEPT !.raised = TRUE]
                        ELSE [acc EXCEPT
                                !.dependencies =
                                    [j \in DOMAIN Iterated(value) |->
                                        is_path(Iterated(value)[j], BaseDirectory)],
                                !.valid =
                                    /\ @
                                    /\ value.type = "list"
                                    /\ \A j \in DOMAIN Iterated(value) :
                                          is_path(Iterated(value)[j], BaseDirectory) # None]
                  [] plugin_attr = "Description" ->
                        IF is_text(value) THEN [acc EXCEPT !.description = value.text]
                        ELSE [acc EXCEPT !.valid = FALSE]
                  [] OTHER -> acc)

\* The body of the loop over the plug-in identifiers, for one plug-in
ReadPlugin(entry) ==
    ReadAttributes(entry, 1,
        [valid |-> TRUE, plugin_paths |-> <<>>, dependencies |-> <<>>,
         description |-> <<>>, raised |-> FALSE])

\* valid, once Source and Files are required
Valid(read) ==
    /\ read.valid
    /\ "Source" \in DOMAIN read.plugin_paths
    /\ "Files" \in DOMAIN read.plugin_paths

\* The table with f[k] = v
With(f, k, v) == [x \in DOMAIN f \cup {k} |-> IF x = k THEN v ELSE f[x]]

\* load, up to the loop over the plug-ins: the version, the default language and
\* the plug-in dictionary are looked at
LoadOpen ==
    /\ load_pc = "open"
    /\ IF plugin_file.Version = None \/ Val(plugin_file.Version).type # "number"
          \/ Val(plugin_file.Version).items # <<1>>
       THEN /\ load_error' = Some("Language plug-in file version not recognized")
            /\ load_pc' = "raised"
            /\ UNCHANGED <<default_language, remaining>>
       ELSE IF plugin_file.Default = None \/ ~is_text(Val(plugin_file.Default))
       THEN /\ load_error' = Some("Default language not specified")
            /\ load_pc' = "raised"
            /\ UNCHANGED <<default_language, remaining>>
       ELSE IF plugin_file.Plugins = None
       THEN /\ load_error' = Some("Plugin dictionary not found")
            /\ load_pc' = "raised"
            /\ default_language' = Some(Val(plugin_file.Default).text)
            /\ UNCHANGED remaining
       ELSE /\ default_language' = Some(Val(plugin_file.Default).text)
            /\ remaining' = DOMAIN Val(plugin_file.Plugins)
            /\ load_pc' = "plugins"
            /\ UNCHANGED load_error
    /\ UNCHANGED <<plugin_file, language_plugins, inside, object, construction>>

\* An iteration of the loop over the plug-in identifiers
LoadPlugin ==
    /\ load_pc = "plugins"
    /\ \E plugin_id \in remaining :
          LET read == ReadPlugin(Val(plugin_file.Plugins)[plugin_id])
          IN  /\ remaining' = remaining \ {plugin_id}
              /\ IF ~MatchesPluginId(plugin_id)
                 THEN UNCHANGED <<language_plugins, load_pc, load_error>>
                 ELSE IF read.raised
                 THEN /\ load_pc' = "raised"
                      /\ load_error' = Some("TypeError")
                      /\ UNCHANGED language_plugins
                 ELSE IF Valid(read)
                 THEN /\ language_plugins' =
                            With(language_plugins, plugin_id,
                                 NewPlugin(Val(read.plugin_paths["Source"]),
                                           Val(read.plugin_paths["Files"]),
                                           [j \in DOMAIN read.dependencies |->
                                               Val(read.dependencies[j])],
                                           read.description))
                      /\ UNCHANGED <<load_pc, load_error>>
                 ELSE UNCHANGED <<language_plugins, load_pc, load_error>>
    /\ UNCHANGED <<plugin_file, default_language, inside, object, construction>>

\* load, after the loop: the table and the default language are returned
LoadFinish ==
    /\ load_pc = "plugins"
    /\ remaining = {}
    /\ IF DOMAIN language_plugins = {}
       THEN /\ load_error' = Some("No plugins found")
            /\ load_pc' = "raised"
       ELSE IF Val(plugin_file.Default).text \notin DOMAIN language_plugins
       THEN /\ load_error' = Some("Default language is invalid")
            /\ load_pc' = "raised"
       ELSE /\ load_pc' = "returned"
            /\ UNCHANGED load_error
    /\ UNCHANGED <<plugin_file, default_language, remaining, language_plugins, inside,
                   object, construction>>

\* LanguagePlugins before load is called on a plug-in file
InitLoad ==
    /\ load_pc = "open"
    /\ remaining = {}
    /\ language_plugins = <<>>
    /\ default_language = None
    /\ load_error = None

(***************************************************************************)
(* Generator/LanguagePlugins.py: Plugin.load and Plugin.create.  A module  *)
(* is kept by what its create_emitter is: absent, a value that cannot be   *)
(* called, a function, or another callable (a class, a partial); by the    *)
(* number of arguments it takes; and by what a call of it does.            *)
(***************************************************************************)
Module(attribute, arity, result) ==
    [create_emitter |-> attribute, arity |-> arity, result |-> result]

\* An emitter object: its class, and whether the class derives from PluginTemplate
Emitter(class, derived) == [class |-> class, is_plugin_template |-> derived]

\* create_emitter of Plugins/C-Ascii/C-Ascii.py: a function of four parameters
CAsciiModule == Module("function", 4, Emitter("CAsciiEmitter", TRUE))

\* The modules a plug-in's source file may hold when it is loaded
Modules ==
    {CAsciiModule,
     Module("absent", 0, None),
     Module("value", 0, None),
     Module("function", 3, Emitter("Emitter", TRUE)),
     Module("function", 3, Emitter("object", FALSE)),
     Module("function", 3, None),
     Module("callable", 3, Emitter("Emitter", TRUE)),
     Module("callable", 3, Emitter("object", FALSE))}

\* The dependencies of the plug-in, as given to Plugin.__init__
Dependencies == <<"a", "b">>

\* hasattr(self.module, 'create_emitter') and isinstance(self.module.create_emitter, types.FunctionType)
HasCreateEmitter(m) == m.create_emitter = "function"

\* self.module.create_emitter(lexical_analyzer, self.dependency_modules, plugin_options):
\* the object returned, or the exception raised
CallCreateEmitter(m) ==
    IF m.create_emitter = "absent" THEN [raised |-> Some("AttributeError"), emitter |-> None]
    ELSE IF m.create_emitter = "value" \/ m.arity # 3
    THEN [raised |-> Some("TypeError"), emitter |-> None]
    ELSE IF m.result = None
    THEN [raised |-> Some("Exception"), emitter |-> None]
    ELSE [raised |-> None, emitter |-> Some(m.result)]

\* Plugin.load: the dependencies are opened and imported in order, then the source;
\* opening or importing a file may fail; the interface is verified last
PluginLoad ==
    /\ calls < MaxCalls
    /\ calls' = calls + 1
    /\ emitter_made' = None
    /\ \E k \in 0..Len(Dependencies) :
          /\ dependency_modules' = dependency_modules \cup {Dependencies[j] : j \in 1..k}
          /\ IF k < Len(Dependencies)
             THEN /\ plugin_error' = Some("IOError")
                  /\ UNCHANGED <<module, verified>>
             ELSE \/ /\ plugin_error' = Some("IOError")
                     /\ UNCHANGED <<module, verified>>
                  \/ \E m \in Modules :
                        /\ module' = Some(m)
                        /\ IF HasCreateEmitter(m)
                           THEN /\ plugin_error' = None
                                /\ verified' = TRUE
                           ELSE /\ plugin_error' =
                                      Some("Plug-in does not contain a 'create_emitter' function")
                                /\ verified' = FALSE
    /\ UNCHANGED <<inside, loader, construction>>

\* Plugin.create
PluginCreate ==
    /\ calls < MaxCalls
    /\ calls' = calls + 1
    /\ IF module = None
       THEN /\ plugin_error' = Some("Plug-in not loaded")
            /\ emitter_made' = None
       ELSE LET called == CallCreateEmitter(Val(module))
            IN  IF called.raised # None
                THEN /\ plugin_error' = called.raised
                     /\ emitter_made' = None
                ELSE IF ~Val(called.emitter).is_plugin_template
                THEN /\ plugin_error' =
                           Some("Plug-in interface did not return a class of the correct type")
                     /\ emitter_made' = None
                ELSE /\ plugin_error' = None
                     /\ emitter_made' = called.emitter
    /\ UNCHANGED <<module, dependency_modules, verified, inside, loader, construction>>

\* Plugin.__init__
InitPlugin ==
    /\ module = None
    /\ dependency_modules = {}
    /\ verified = FALSE
    /\ emitter_made = None
    /\ plugin_error = None
    /\ calls = 0

(***************************************************************************)
(* Plugins/C-Ascii/C-Ascii.py: CAsciiEmitter.__init__, as far as it looks  *)
(* at the plug-in options.                                                 *)
(***************************************************************************)
\* CAsciiEmitter.reserved_keywords
reserved_keywords ==
    {<<"a","u","t","o">>, <<"b","r","e","a","k">>, <<"c","a","s","e">>,
     <<"c","h","a","r">>, <<"c","o","n","s","t">>, <<"c","o","n","t","i","n","u","e">>,
     <<"d","e","f","a","u","l","t">>, <<"d","o">>, <<"d","o","u","b","l","e">>,
     <<"e","l","s","e">>, <<"e","n","u","m">>, <<"e","x","t","e","r","n">>,
     <<"f","l","o","a","t">>, <<"f","o","r">>, <<"g","o","t","o">>, <<"i","f">>,
     <<"i","n","t">>, <<"l","o","n","g">>, <<"r","e","g","i","s","t","e","r">>,
     <<"r","e","t","u","r","n">>, <<"s","h","o","r","t">>, <<"s","i","g","n","e","d">>,
     <<"s","i","z","e","o","f">>, <<"s","t","a","t","i","c">>,
     <<"s","t","r","u","c","t">>, <<"s","w","i","t","c","h">>,
     <<"t","y","p","e","d","e","f">>, <<"u","n","i","o","n">>,
     <<"u","n","s","i","g","n","e","d">>, <<"v","o","i","d">>,
     <<"v","o","l","a","t","i","l","e">>, <<"w","h","i","l","e">>}

\* CAsciiEmitter.default_namespace, CAsciiEmitter.default_file_name
default_namespace == <<"p","o","o","d","l","e">>
default_file_name == <<"l","e","x","i","c","a","l","_","a","n","a","l","y","z","e","r">>

\* The attributes of the class CAsciiEmitter that __init__ may read
ClassAttributes ==
    [x \in {"default_namespace", "default_file_name"} |->
        IF x = "default_namespace" THEN default_namespace ELSE default_file_name]

IsDigit(c) == c \in {"0", "1", "2", "3", "4", "5", "6", "7", "8", "9"}

\* re.match("[A-Za-z_][A-Za-z0-9_]*", name) is not None: a match at the start of name
MatchesIdentifier(name) == Len(name) >= 1 /\ (IsLetter(name[1]) \/ name[1] = "_")

\* The check of one option: the exception it raises, if any
CheckName(name, description) ==
    IF name = None THEN None
    ELSE IF ~MatchesIdentifier(Val(name)) THEN Some(<<"Invalid", description>>)
    ELSE IF Val(name) \in reserved_keywords THEN Some(<<description, "is reserved">>)
    ELSE None

\* CAsciiEmitter.<attribute>: the attribute's value, or the AttributeError
ClassAttribute(attribute) ==
    IF attribute \in DOMAIN ClassAttributes
    THEN [raised |-> None, value |-> Some(ClassAttributes[attribute])]
    ELSE [raised |-> Some(<<"AttributeError", attribute>>), value |-> None]

\* The option if it is set, the class attribute otherwise
OrDefault(option, attribute) ==
    IF option # None THEN [raised |-> None, value |-> option]
    ELSE ClassAttribute(attribute)

\* PluginOptions.__init__
NewPluginOptions ==
    [is_backtracking |-> FALSE, class_name |-> None, namespace |-> None,
     file_name |-> None]

\* CAsciiEmitter.__init__: the options are checked, the file name first; then the
\* base file name and the namespace are set, from the defaults where unset
ConstructEmitter ==
    /\ plugin_options # None
    /\ c_emitter = None
    /\ construct_error = None
    /\ LET options == Val(plugin_options)
           base_file_name == OrDefault(options.file_name, "default_file_name")
           namespace == OrDefault(options.namespace, "default_namespaces")
       IN  IF CheckName(options.file_name, "base file name") # None
           THEN /\ construct_error' = CheckName(options.file_name, "base file name")
                /\ UNCHANGED c_emitter
           ELSE IF CheckName(options.namespace, "namespace") # None
           THEN /\ construct_error' = CheckName(options.namespace, "namespace")
                /\ UNCHANGED c_emitter
           ELSE IF options.class_name # None
           THEN /\ construct_error' = Some(<<"Arbitrary class name", "not supported">>)
                /\ UNCHANGED c_emitter
           ELSE IF base_file_name.raised # None
           THEN /\ construct_error' = base_file_name.raised
                /\ UNCHANGED c_emitter
           ELSE IF namespace.raised # None
           THEN /\ construct_error' = namespace.raised
                /\ UNCHANGED c_emitter
           ELSE /\ c_emitter' = Some([base_file_name |-> Val(base_file_name.value),
                                      namespace |-> Val(namespace.value)])
                /\ UNCHANGED construct_error
    /\ UNCHANGED <<plugin_options, inside, loader, object>>

(***************************************************************************)
(* The grammars the builder is run on.                                     *)
(***************************************************************************)
Tok == <<"T","o","k">>
Key == <<"K","e","y">>
IdMixed == <<"I","d">>
IdUpper == <<"I","D">>
Jump == <<"J","u","m","p">>
SecA == <<"a">>
SecB == <<"b">>

PatA == Some(Pattern(<<"a">>, FALSE))
PatB == Some(Pattern(<<"b">>, FALSE))

Enter(name) == Some([action |-> "enter", section |-> Some(name)])
Exit == Some([action |-> "exit", section |-> None])

\* Reservations and imports, with and without patterns, and a sub-section
ImportDecls ==
    {RuleDecl(Tok, PatA, <<RESERVE>>, None),
     RuleDecl(Tok, None, <<RESERVE>>, None),
     RuleDecl(Key, PatB, <<RESERVE>>, None),
     RuleDecl(Tok, None, <<IMPORT>>, None),
     RuleDecl(Tok, PatB, <<IMPORT>>, None),
     RuleDecl(Key, None, <<IMPORT>>, None),
     SectionDecl(SecA, TRUE),
     EndDecl}

Grammars(decls) == {g \in SeqsUpTo(decls, MaxTokens) : WellFormed(g)}

Init ==
    /\ ast \in Grammars(ImportDecls)
    /\ InitBuilder

Next ==
    \/ VisitSection
    \/ VisitRule
    \/ LeaveSection
    \/ Construct

Spec == Init /\ [][Next]_vars

\* Rules that collide in identifier, carry section actions or fail to compile, a
\* reservation, an import and a sub-section
RuleDecls ==
    {RuleDecl(IdMixed, PatA, <<>>, None),
     RuleDecl(IdUpper, PatB, <<SKIP>>, Exit),
     RuleDecl(Tok, None, <<RESERVE>>, None),
     RuleDecl(Jump, PatA, <<>>, Enter(SecA)),
     RuleDecl(None, Some(Pattern(<<"(">>, FALSE)), <<>>, None),
     RuleDecl(Key, Some(Pattern(<<"{","v","}">>, FALSE)), <<>>, None),
     RuleDecl(Tok, None, <<IMPORT>>, None),
     SectionDecl(SecA, FALSE),
     EndDecl}

InitRules ==
    /\ ast \in Grammars(RuleDecls)
    /\ InitBuilder

SpecRules == InitRules /\ [][Next]_vars

(***************************************************************************)
(* The analyzer of single rules: every short pattern text over a small     *)
(* pattern alphabet, and some longer ones, case-sensitive and not.         *)
(***************************************************************************)
MaxPatLen == 4
MaxInput == 3

PatChars == {"a", "b", "|", "*", "(", ")"}
InputChars == {65, 97, 98}

LongPatterns ==
    {<<"(","a","|","b",")","*">>,
     <<"a","(","b","|","a",")","+">>,
     <<"[","a","-","b","]","+","a","?">>,
     <<"(","a","b",")","*","|","b","?">>,
     <<"a","*","b","a","*">>}

PatternTexts == SeqsUpTo(PatChars, MaxPatLen) \cup LongPatterns

\* One rule, named or anonymous; or one rule over a variable definition
AutomataGrammars ==
    {<<RuleDecl(id, Some(Pattern(t, ci)), <<>>, None)>>
        : t \in PatternTexts, ci \in BOOLEAN, id \in {IdMixed, None}}
    \cup {<<DefineDecl(<<"v">>, Pattern(t, ci)),
            RuleDecl(Key, Some(Pattern(<<"{","v","}","b","?">>, FALSE)), <<>>, None)>>
        : t \in SeqsUpTo(PatChars, 2), ci \in BOOLEAN}

Strings == SeqsUpTo(InputChars, MaxInput)

InitAutomata ==
    /\ ast \in AutomataGrammars
    /\ InitBuilder

NextAutomata ==
    \/ VisitSection
    \/ VisitRule
    \/ LeaveSection
    \/ Construct
    \/ DeterminizeStage
    \/ MinimizeStage
    \/ MinimizeAgain

SpecAutomata == InitAutomata /\ [][NextAutomata]_vars

(***************************************************************************)
(* The scanner of a few rules: a keyword, a word the keyword overlaps, a   *)
(* skipped separator and a rule whose identifier has an upper-case letter. *)
(***************************************************************************)
MaxRules == 2

Kw == <<"k","w">>
Word == <<"w","o","r","d">>
Ws == <<"w","s">>

EmitDecls ==
    {RuleDecl(Kw, Some(Pattern(<<"i","f">>, FALSE)), <<>>, None),
     RuleDecl(Word, Some(Pattern(<<"[","f","-","i","]","+">>, FALSE)), <<>>, None),
     RuleDecl(Ws, Some(Pattern(<<"z","+">>, FALSE)), <<SKIP>>, None),
     RuleDecl(IdMixed, Some(Pattern(<<"a","f","?">>, FALSE)), <<>>, None)}

EmitGrammars == {g \in SeqsUpTo(EmitDecls, MaxRules) : g # <<>>}

AsciiChars == 0..127

InitEmit ==
    /\ ast \in EmitGrammars
    /\ InitBuilder

NextEmit ==
    \/ VisitSection
    \/ VisitRule
    \/ LeaveSection
    \/ Construct
    \/ DeterminizeStage
    \/ MinimizeStage
    \/ EmitState

SpecEmit == InitEmit /\ [][NextEmit]_vars

(***************************************************************************)
(* The plug-in files load is run on: recognized and unrecognized versions, *)
(* default languages, and plug-ins with good, missing and ill-typed        *)
(* attributes.                                                             *)
(***************************************************************************)
MaxPlugins == 2

Attr(name, value) == [name |-> name, value |-> value]

SourceOk == Attr("Source", Text(<<"c.py">>))
FilesOk == Attr("Files", Text(<<"/", "files">>))

PluginEntries ==
    {<<SourceOk, FilesOk>>,
     <<Attr("Description", Text(<<"C">>)), Attr("Dependencies", List(<<Text(<<"dep.py">>)>>)),
       FilesOk, SourceOk>>,
     <<FilesOk>>,
     <<Attr("Source", Text(<<"gone.py">>)), FilesOk>>,
     <<Attr("Source", Number(0)), FilesOk>>,
     <<SourceOk, FilesOk,
       Attr("Dependencies", List(<<Text(<<"dep.py">>), Text(<<"gone.py">>)>>))>>,
     <<SourceOk, FilesOk, Attr("Dependencies", Text(<<"dep.py">>))>>,
     <<SourceOk, Attr("Dependencies", Number(0)), FilesOk>>,
     <<SourceOk, FilesOk, Attr("Description", Number(0))>>,
     <<SourceOk, FilesOk, Attr("Author", Number(0))>>}

PluginIds == {<<"c">>, <<"j","s">>, <<"9","c">>, <<"c","!">>}

PluginTables ==
    UNION {[ids -> PluginEntries] : ids \in {x \in SUBSET PluginIds : Cardinality(x) <= MaxPlugins}}

PluginFiles ==
    [Version : {None, Some(Number(1)), Some(Number(2))},
     Default : {None, Some(Number(0)), Some(Text(<<"c">>)), Some(Text(<<"j","s">>))},
     Plugins : {None} \cup {Some(t) : t \in PluginTables}]

InitPlugins ==
    /\ ast = <<>>
    /\ InitGenerator
    /\ plugin_file \in PluginFiles
    /\ InitLoad
    /\ NoPlugin
    /\ NoConstruction

NextPlugins ==
    \/ LoadOpen
    \/ LoadPlugin
    \/ LoadFinish

SpecPlugins == InitPlugins /\ [][NextPlugins]_vars


(***************************************************************************)
(* A Plugin object under any sequence of up to MaxCalls load and create    *)
(* calls, the source file holding any module at each load.                 *)
(***************************************************************************)
InitObject ==
    /\ ast = <<>>
    /\ InitGenerator
    /\ NoLoad
    /\ InitPlugin
    /\ NoConstruction

NextObject ==
    \/ PluginLoad
    \/ PluginCreate

SpecObject == InitObject /\ [][NextObject]_vars


(***************************************************************************)
(* The C emitter constructed from plug-in options: every option unset, or  *)
(* set to a name that is fine, reserved, or no identifier.                 *)
(***************************************************************************)
OptionNames ==
    {None, Some(<<"n","s">>), Some(<<"_","t","1">>), Some(<<"i","f">>), Some(<<"9","x">>),
     Some(<<"a","-","b">>)}

InitOptions ==
    /\ ast = <<>>
    /\ InitGenerator
    /\ NoLoad
    /\ NoPlugin
    /\ \E file_name \in OptionNames, namespace \in OptionNames,
          class_name \in {None, Some(<<"L","e","x">>)}, is_backtracking \in BOOLEAN :
          plugin_options =
              Some([NewPluginOptions EXCEPT !.file_name = file_name,
                                           !.namespace = namespace,
                                           !.class_name = class_name,
                                           !.is_backtracking = is_backtracking])
    /\ c_emitter = None
    /\ construct_error = None

NextOptions == ConstructEmitter

SpecOptions == InitOptions /\ [][NextOptions]_vars

(***************************************************************************)
(* Claims about the resolution of imports (specification Spec).            *)
(***************************************************************************)
\* A section the builder has visited to the end of visit_section
Registered(s) == QualifiedName(ast, s) \in DOMAIN sections

Imports(s) == Scope(ast0, s, "future_import")

\* The reservation rule an import of section s resolves to, as handed over
ReservationOf(s, i) == Reservation(ast0, s, ast0[i].id)

\* An import of s without a pattern whose reservation has none either
Unresolvable(s, i) ==
    /\ i \in Imports(s)
    /\ ast0[i].pattern = None
    /\ ReservationOf(s, i) # None
    /\ Val(ReservationOf(s, i)).pattern = None

\* C1: once visit_section has processed a section, each of its imported rules that
\* had no pattern holds the pattern of its reservation, and each that had a pattern
\* still holds it; a section with an import whose own and whose reservation's
\* pattern are both absent is never processed to the end: the build fails there.
C1_ImportInheritsPattern ==
    \A s \in AllSections(ast0) :
        /\ Registered(s) =>
              \A i \in Imports(s) :
                  /\ ReservationOf(s, i) # None
                  /\ ast0[i].pattern = None =>
                        /\ Val(ReservationOf(s, i)).pattern # None
                        /\ ast[i].pattern = Val(ReservationOf(s, i)).pattern
                  /\ ast0[i].pattern # None => ast[i].pattern = ast0[i].pattern
        /\ (\E i \in Imports(s) : Unresolvable(s, i)) =>
              /\ ~Registered(s)
              /\ pc <= s
              /\ (pc = s /\ status # "building") => status = "failed"

\* C1 witness: a build that completed after an import took its reservation's pattern
C1_Witness ==
    /\ status = "built"
    /\ \E i \in DOMAIN ast0 :
          /\ HasAction(ast0[i], IMPORT)
          /\ ast0[i].pattern = None
          /\ ast[i].pattern # None

\* C2 as stated: a reservation without a pattern, for which no importing rule
\* supplies a pattern, makes the build fail.
C2_UnresolvedReservationFails ==
    (\E r \in DOMAIN ast0 :
        /\ HasAction(ast0[r], RESERVE)
        /\ ast0[r].pattern = None
        /\ ~\E s \in AllSections(ast0) : \E i \in Imports(s) :
              /\ Find(ast0, s, "reservation", ast0[i].id) = Some(r)
              /\ ast0[i].pattern # None)
    => status # "built"

\* C2 amended: the build fails when a rule imports TOK without a pattern and the
\* reservation TOK has none: the error is raised on that importing rule, before its
\* section is registered; no error is ever raised on a reservation itself, which
\* visit_rule skips.
C2_UnresolvedImportFails ==
    /\ \A s \in AllSections(ast0) :
          (\E i \in Imports(s) : Unresolvable(s, i)) => (status # "built" /\ pc <= s)
    /\ error # None => ~HasAction(ast0[Val(error).rule], RESERVE)
    /\ (error # None /\ Val(error).message.detail =
            "pattern must be defined for imported rule if not defined by reservation rule")
          => /\ status = "failed"
             /\ pc \in AllSections(ast0)
             /\ ~Registered(pc)
             /\ Unresolvable(pc, Val(error).rule)
             /\ Val(ReservationOf(pc, Val(error).rule)).id = ast0[Val(error).rule].id

\* C2 witness: the build has failed on an import that no pattern resolves
C2_Witness ==
    /\ status = "failed"
    /\ error # None
    /\ Val(error).message.detail =
          "pattern must be defined for imported rule if not defined by reservation rule"

\* C9 as stated: the build never changes the grammar it was handed.
C9_GrammarUnchanged == ast = ast0

\* C9 amended: the build changes nothing of the grammar but the pattern of an imported
\* rule that had none, which becomes the pattern of its reservation; the change stays
\* when the build fails later.
C9_OnlyImportsChange ==
    /\ Len(ast) = Len(ast0)
    /\ \A i \in DOMAIN ast0 :
          \/ ast[i] = ast0[i]
          \/ /\ ast[i] = [ast0[i] EXCEPT !.pattern = ast[i].pattern]
             /\ HasAction(ast0[i], IMPORT)
             /\ ast0[i].pattern = None
             /\ ReservationOf(SectionOf(ast0, i), i) # None
             /\ ast[i].pattern = Val(ReservationOf(SectionOf(ast0, i), i)).pattern
             /\ ast[i].pattern # None

\* C9 witness: a failed build that has left an imported rule with a new pattern
C9_Witness ==
    /\ status = "failed"
    /\ \E i \in DOMAIN ast0 : ast[i].pattern # ast0[i].pattern

(***************************************************************************)
(* Claims about rules, section actions and failure (specification          *)
(* SpecRules).                                                             *)
(***************************************************************************)
\* The IR rules built so far: <<section reference, position in its rule list>>
IrRules == {<<h, k>> \in (DOMAIN heap) \X (1..MaxTokens + 1) : k \in DOMAIN heap[h].rules}

IrRule(x) == heap[x[1]].rules[x[2]]

\* The rules of section s that are no reservations, as handed over
Concrete(s) == {i \in Declared(ast0, s, "rule") : ~HasAction(ast0[i], RESERVE)}

\* The elements of a set of numbers in increasing order
RECURSIVE Sorted(_)
Sorted(S) ==
    IF S = {} THEN <<>>
    ELSE LET m == CHOOSE x \in S : \A y \in S : x <= y
         IN  <<m>> \o Sorted(S \ {m})

\* C3 as stated: a successfully built IR never holds two rules whose identifiers
\* are equal ignoring case; the build fails instead.
C3_IdentifiersUnique ==
    status = "built" =>
        \A x, y \in IrRules :
            (x # y /\ IrRule(x).id # None) => Lower(IrRule(x).id) # Lower(IrRule(y).id)

\* C4: in a built IR every section action that names a target holds the qualified
\* name of a section of the IR's table; a rule whose target does not resolve from
\* its section is never appended: the build stops at it with an error on that rule.
C4_SectionTargetsResolve ==
    /\ status = "built" =>
          \A x \in IrRules :
              (IrRule(x).section_action # None
                  /\ Val(IrRule(x).section_action).section # None)
              => Val(Val(IrRule(x).section_action).section) \in DOMAIN Val(ir).sections
    /\ \A i \in DOMAIN ast0 :
          (/\ ast0[i].kind = "rule"
           /\ ~HasAction(ast0[i], RESERVE)
           /\ ast0[i].section_action # None
           /\ Val(ast0[i].section_action).section # None
           /\ Resolve(ast0, Val(Val(ast0[i].section_action).section), SectionOf(ast0, i)) = None)
          => /\ pc <= i
             /\ \A x \in IrRules : IrRule(x).line_number # i
             /\ (pc = i /\ status # "building") =>
                   /\ status = "failed"
                   /\ Val(error).rule = i
                   /\ Val(error).message.id = ast0[i].id

\* C4 witness: a built IR with a rule that enters a section
C4_Witness ==
    /\ status = "built"
    /\ \E x \in IrRules :
          /\ IrRule(x).section_action # None
          /\ Val(IrRule(x).section_action).section # None

\* C5: after a successful traversal the rule list of every IR section is the list
\* of the non-reservation rules declared directly in that section, in declaration
\* order, also when a sub-section is declared between two of them.
C5_RulesInDeclarationOrder ==
    status = "built" =>
        \A s \in AllSections(ast0) :
            /\ Registered(s)
            /\ LET rules == heap[Val(ir).sections[QualifiedName(ast0, s)]].rules
                   expected == Sorted(Concrete(s))
               IN  /\ Len(rules) = Len(expected)
                   /\ \A k \in DOMAIN rules :
                         /\ rules[k].line_number = expected[k]
                         /\ rules[k].id = ast0[expected[k]].id

\* C5 witness: a built IR of a section with a rule before and a rule after a
\* sub-section that has a rule of its own
C5_Witness ==
    /\ status = "built"
    /\ \E s \in AllSections(ast0) : \E c \in Children(ast0, s) :
          /\ \E i, j \in Concrete(s) : i < c /\ c < j
          /\ Concrete(c) # {}

\* Where the build failed: the section or rule the Traverser was handing over
FailedAt(i) == status = "failed" /\ pc = i

\* C6: a failure is raised as one error on the rule at fault, the traversal stops
\* there (nothing declared later is visited, no step follows), and no
\* NonDeterministicIR object is produced; a rule that does not compile is never
\* passed over.
C6_AllOrNothing ==
    /\ status = "failed" =>
          /\ error # None
          /\ ir = None
          /\ ~ENABLED Next
          /\ ast0[Val(error).rule].kind = "rule"
          /\ IF pc \in DOMAIN ast0 /\ ast0[pc].kind = "rule"
             THEN /\ Val(error).rule = pc
                  /\ Val(error).message.prefix =
                        (IF ast0[pc].id = None THEN "anonymous rule" ELSE "rule")
             ELSE Val(error).rule \in Imports(pc)
          /\ \A x \in IrRules : IrRule(x).line_number < pc
          /\ \A s \in AllSections(ast0) : Registered(s) => s < pc \/ s = Root
    /\ status # "built" => ir = None
    /\ \A i \in DOMAIN ast0 :
          (/\ ast0[i].kind = "rule"
           /\ ~HasAction(ast0[i], RESERVE)
           /\ Registered(SectionOf(ast0, i))
           /\ ~TryVisitRule(ast, SectionOf(ast0, i), i).ok)
          => pc <= i /\ status # "built"

\* C6 witness: a build that failed on a rule with declarations still to come
C6_Witness ==
    /\ status = "failed"
    /\ pc \in DOMAIN ast0
    /\ ast0[pc].kind = "rule"
    /\ pc < Len(ast0)
    /\ heap # <<>>

(***************************************************************************)
(* Claims about the automata, checked under SpecAutomata.                  *)
(***************************************************************************)
RECURSIVE Matches(_, _, _)
RECURSIVE MatchesSeq(_, _, _, _)
RECURSIVE MatchesRepeat(_, _, _, _, _)

\* w is the concatenation of strings matched by kids[k..], in order
MatchesSeq(kids, k, w, lookup) ==
    IF k > Len(kids) THEN w = <<>>
    ELSE \E j \in 0..Len(w) :
            /\ Matches(kids[k], SubSeq(w, 1, j), lookup)
            /\ MatchesSeq(kids, k + 1, SubSeq(w, j + 1, Len(w)), lookup)

\* w is between min and max strings matched by kid, one after the other
MatchesRepeat(kid, min, max, w, lookup) ==
    \/ min = 0 /\ w = <<>>
    \/ /\ min > 0
       /\ Matches(kid, <<>>, lookup)
       /\ MatchesRepeat(kid, min - 1, IF max = None THEN None ELSE Some(Val(max) - 1),
                        w, lookup)
    \/ /\ max # Some(0)
       /\ \E j \in 1..Len(w) :
             /\ Matches(kid, SubSeq(w, 1, j), lookup)
             /\ MatchesRepeat(kid, IF min > 0 THEN min - 1 ELSE 0,
                              IF max = None THEN None ELSE Some(Val(max) - 1),
                              SubSeq(w, j + 1, Len(w)), lookup)

\* The reference matcher: w is in the language denoted by the regex AST
Matches(node, w, lookup) ==
    CASE node.kind = "Literal" -> w = <<node.ch>>
      [] node.kind = "CharClass" -> Len(w) = 1 /\ w[1] \in Covered(node.ranges)
      [] node.kind = "Concat" -> MatchesSeq(node.kids, 1, w, lookup)
      [] node.kind = "Alternation" ->
            \E k \in DOMAIN node.kids : Matches(node.kids[k], w, lookup)
      [] node.kind = "Repeat" -> MatchesRepeat(node.kid, node.min, node.max, w, lookup)
      [] node.kind = "VariableRef" ->
            Matches(Parse(lookup[node.name].regex,
                          lookup[node.name].is_case_insensitive).ast,
                    w, lookup)

\* The regex AST of the grammar's rule and the definitions it may refer to
TheRule == ast0[Len(ast0)]
TheRegex == Parse(Val(TheRule.pattern).regex, Val(TheRule.pattern).is_case_insensitive).ast
InLanguage(w) == Matches(TheRegex, w, DefineLookup(ast0, Root))

\* Identifiers are case-insensitive: the tag of a rule is its identifier in lower case
SameIdentifier(a, b) == Lower(a) = Lower(b)

Finishing(final_ids) ==
    {k \in DOMAIN AnalyzerRules : RuleIdLower(AnalyzerRules[k]) \in final_ids}

FirstDeclared(final_ids) ==
    CHOOSE k \in Finishing(final_ids) : \A j \in Finishing(final_ids) : k <= j

FinalIdsOf(code) == Val(min_dfa).final_ids[code.state]

\* C7: the emitter never fails to select a token, and in every emitted state with
\* final ids the token selected is the identifier of the first declared of the
\* rules that can finish there.
C7_FirstDeclaredRuleSelected ==
    /\ emit_error = None
    /\ \A k \in DOMAIN emitted :
          FinalIdsOf(emitted[k]) # {} =>
              emitted[k].otherwise.token
                  = Some(Upper(AnalyzerRules[FirstDeclared(FinalIdsOf(emitted[k]))].id))

\* The characters no outgoing edge of an emitted state covers
Uncovered(code) == AsciiChars \ UNION {Covered(b.ranges) : b \in code.branches}

InvalidCharacter == <<[kind |-> "invalid", token |-> None, state |-> None]>>

\* C8 as stated: in every emitted state, every character that no outgoing edge
\* covers sets the state to the invalid-character state.
C8_UncoveredLeadsToInvalid ==
    \A k \in DOMAIN emitted :
        \A c \in Uncovered(emitted[k]) : Execute(emitted[k], c, FALSE) = InvalidCharacter

\* C8: in every emitted state without final ids, every character that no outgoing
\* edge covers sets the state to the invalid-character state, the stream not being
\* at its end; in a state with final ids such a character never does: it returns
\* the state's token, or restarts the scanner in the start state when the token's
\* rule is skipped; and at the end of the stream the start state returns the
\* end-of-stream token.
C8_UncoveredLeadsToInvalidUnlessFinal ==
    \A k \in DOMAIN emitted :
        /\ \A c \in Uncovered(emitted[k]) :
              LET run == Execute(emitted[k], c, FALSE)
              IN  /\ Len(run) = 1
                  /\ FinalIdsOf(emitted[k]) = {} => run = InvalidCharacter
                  /\ FinalIdsOf(emitted[k]) # {} =>
                        \/ run[1].kind = "token" /\ run[1].token # None
                        \/ /\ run[1].kind = "reset"
                           /\ run[1].state = Some(Val(min_dfa).start)
                           /\ IsSkip(RuleOfToken(Val(run[1].token)))
        /\ emitted[k].state = Val(min_dfa).start =>
              \A c \in AsciiChars : Execute(emitted[k], c, TRUE)[1].kind = "end of stream"

\* The scanner of a keyword and a skipped separator is written in full: the start
\* state rejects a character it has no edge for, the keyword's state returns its
\* token on one, the separator's state restarts the scanner on one
C8_Witness ==
    /\ status = "finalized"
    /\ Cardinality(EmittedStates) = Cardinality(Val(min_dfa).states)
    /\ \E k \in DOMAIN emitted :
          /\ emitted[k].state = Val(min_dfa).start
          /\ \E c \in Uncovered(emitted[k]) :
                Execute(emitted[k], c, FALSE) = InvalidCharacter
    /\ \E k \in DOMAIN emitted :
          \E c \in Uncovered(emitted[k]) : Execute(emitted[k], c, FALSE)[1].kind = "token"
    /\ \E k \in DOMAIN emitted :
          \E c \in Uncovered(emitted[k]) : Execute(emitted[k], c, FALSE)[1].kind = "reset"

\* The relabeling of a state of a minimized DFA: the class that holds it alone
Alone(s) == {s}

\* C11: minimizing a minimized DFA merges nothing: it returns the same automaton
\* with every state relabeled as the class holding it alone, the same start state,
\* the same edges and the same final ids; and the start state of a minimized DFA is
\* the class of the start state of the DFA it was made of.
C11_MinimizeIdempotent ==
    /\ min_dfa # None => Val(dfa).start \in Val(min_dfa).start
    /\ reminimized # None =>
          /\ Val(reminimized).states = {Alone(s) : s \in Val(min_dfa).states}
          /\ Val(reminimized).start = Alone(Val(min_dfa).start)
          /\ Val(reminimized).edges =
                {[from |-> Alone(e.from), to |-> Alone(e.to), ranges |-> e.ranges]
                 : e \in Val(min_dfa).edges}
          /\ \A s \in Val(min_dfa).states :
                Val(reminimized).final_ids[Alone(s)] = Val(min_dfa).final_ids[s]

\* A DFA whose minimization merged states, and left more than two, is minimized
\* again; its start state is not alone in its class
C11_Witness ==
    /\ reminimized # None
    /\ Cardinality(Val(min_dfa).states) < Cardinality(Val(dfa).states)
    /\ Cardinality(Val(reminimized).states) > 2
    /\ Cardinality(Val(min_dfa).start) > 1

(***************************************************************************)
(* Claims about the plug-in loader, checked under SpecPlugins.             *)
(***************************************************************************)
\* The value of an attribute of a plug-in of the file, if it has the attribute
Attribute(plugin_id, name) ==
    LET entry == Val(plugin_file.Plugins)[plugin_id]
    IN  IF \E k \in DOMAIN entry : entry[k].name = name
        THEN Some(entry[CHOOSE k \in DOMAIN entry : entry[k].name = name].value)
        ELSE None

\* The text names a path that exists, as it stands or below the base directory
NamesExistingPath(v) ==
    /\ v.type = "text"
    /\ \/ Exists(v.text)
       \/ Exists(BaseDirectory \o v.text)

\* No attribute the loader knows is ill-typed or names a path that does not exist
WellFormedEntry(plugin_id) ==
    /\ Attribute(plugin_id, "Source") # None
    /\ NamesExistingPath(Val(Attribute(plugin_id, "Source")))
    /\ Attribute(plugin_id, "Files") # None
    /\ NamesExistingPath(Val(Attribute(plugin_id, "Files")))
    /\ Attribute(plugin_id, "Dependencies") # None =>
          /\ Val(Attribute(plugin_id, "Dependencies")).type = "list"
          /\ \A v \in Range(Val(Attribute(plugin_id, "Dependencies")).items) :
                NamesExistingPath(v)
    /\ Attribute(plugin_id, "Description") # None =>
          Val(Attribute(plugin_id, "Description")).type = "text"

C13_CreateOnlyAfterVerifiedLoad ==
    emitter_made # None =>
        /\ module # None
        /\ verified
        /\ Val(emitter_made).is_plugin_template


(***************************************************************************)
(* Claims about the C emitter's constructor, checked under SpecOptions.    *)
(***************************************************************************)
\* A C identifier: a letter or an underscore, then letters, digits and underscores
IsCIdentifier(name) ==
    /\ Len(name) >= 1
    /\ IsLetter(name[1]) \/ name[1] = "_"
    /\ \A k \in DOMAIN name : IsLetter(name[k]) \/ IsDigit(name[k]) \/ name[k] = "_"

Usable(name) == IsCIdentifier(name) /\ name \notin reserved_keywords

Constructed == c_emitter # None \/ construct_error # None

\* C14: constructing the emitter with no namespace, no file name and no class name
\* succeeds, the emitter having the namespace "poodle" and the base file name
\* "lexical_analyzer"; a namespace or file name that is set is the emitter's only
\* if it is a C identifier and no reserved keyword, and the construction raises
\* otherwise.
C14_DefaultsAndValidNames ==
    Constructed =>
        LET options == Val(plugin_options)
        IN  /\ (options.namespace = None /\ options.file_name = None
                   /\ options.class_name = None) =>
                  /\ c_emitter # None
                  /\ Val(c_emitter).namespace = default_namespace
                  /\ Val(c_emitter).base_file_name = default_file_name
            /\ \A name \in {options.namespace, options.file_name} \ {None} :
                  IF Usable(Val(name))
                  THEN c_emitter # None =>
                          /\ options.namespace # None =>
                                Val(c_emitter).namespace = Val(options.namespace)
                          /\ options.file_name # None =>
                                Val(c_emitter).base_file_name = Val(options.file_name)
                  ELSE construct_error # None

(***************************************************************************)
(* The scope of the builder, checked under Spec.                           *)
(***************************************************************************)
\* The AST section registered under a qualified name
AstSection(name) == CHOOSE s \in AllSections(ast) : QualifiedName(ast, s) = name

\* C15: at every point of the traversal, failed or not, the current IR section is
\* none exactly when the current AST section is none, and is otherwise the section
\* registered under the qualified name of the current AST section; every
\* registered section is registered under the qualified name of a section of the
\* AST, has its inherits flag, and records as parent none if it is the root and
\* otherwise the qualified name of its AST parent, which is registered too.
C15_ScopeInvariant ==
    /\ current_ast_section = None <=> current_ir_section = None
    /\ current_ast_section # None =>
          /\ QualifiedName(ast, Val(current_ast_section)) \in DOMAIN sections
          /\ current_ir_section =
                Some(sections[QualifiedName(ast, Val(current_ast_section))])
    /\ \A name \in DOMAIN sections :
          /\ \E s \in AllSections(ast) : QualifiedName(ast, s) = name
          /\ heap[sections[name]].inherits = Inherits(ast, AstSection(name))
          /\ IF AstSection(name) = Root
             THEN heap[sections[name]].parent = None
             ELSE /\ heap[sections[name]].parent
                        = Some(QualifiedName(ast, Val(Parent(ast, AstSection(name)))))
                  /\ Val(heap[sections[name]].parent) \in DOMAIN sections

\* The traversal is back in the root section after an inheriting sub-section of it
\* was entered, given a rule and left
C15_Witness ==
    /\ status = "building"
    /\ current_ast_section = Some(Root)
    /\ Cardinality(DOMAIN sections) >= 2
    /\ \E name \in DOMAIN sections :
          /\ heap[sections[name]].parent # None
          /\ heap[sections[name]].inherits
          /\ heap[sections[name]].rules # <<>>

====
